---- MODULE Spec2Model ----
(***************************************************************************)
(* Model of the dashboard aggregation calls and the system-log helper of   *)
(* src/api.ts (dashboardApi.getStats, getScamTypeDistribution,             *)
(* getDailyDetections and systemLogApi.createLog) together with the parts  *)
(* of their environment they observe: the identity provider, the record    *)
(* store, the wall clock and the local time zone of the JavaScript host.   *)
(***************************************************************************)
EXTENDS Integers, Sequences, FiniteSets, TLC

VARIABLES
    user,           \* supabase.auth.getUser(): the current caller, or Null
    messages,       \* table 'messages', rows in table order
    conversations,  \* table 'conversations'
    intelligence,   \* table 'intelligence'
    system_logs,    \* table 'system_logs'
    tz,             \* the host's local time zone
    clock,          \* the instant a `new Date()` reads, in ticks
    ticks,          \* how far the clock has advanced during the call
    op,             \* the operation being called
    pc,             \* where the call stands
    days,           \* argument of getDailyDetections
    log,            \* argument of createLog
    inflight,       \* the requests sent to the record store, by query
    resp,           \* the responses received, by query
    arrived,        \* the queries in the order their responses arrived
    issued,         \* number of requests sent to the store by this call
    startDate,      \* getDailyDetections: the cutoff instant
    detectionsByDate, \* getDailyDetections: the count map
    i,              \* getDailyDetections: the loop variable
    result,         \* the value the call returned
    thrown,         \* the error the call ended in, or Null
    console         \* what console.error has been given

vars == <<user, messages, conversations, intelligence, system_logs, tz, clock,
          ticks, op, pc, days, log, inflight, resp, arrived, issued, startDate,
          detectionsByDate, i, result, thrown, console>>

(***************************************************************************)
(* Bounds of the model.                                                    *)
(***************************************************************************)
MaxDays == 3
TicksPerDay == 4
MaxTicks == 1
MaxDailyRows == 2
MaxDistRows == 3
MaxStatRows == 1
MaxAllRows == 2
MaxLogRows == 1

(***************************************************************************)
(* Values.                                                                 *)
(***************************************************************************)
Null == "null"
Users == {"u1", "u2"}
StoreError == "StoreError"

\* The first UTC day on which a call may start: far enough from day 0 for
\* every date the calls compute to stay non-negative.
Day0 == MaxDays + 2

\* An optional value: None, or Some(v).  JavaScript's null and undefined are
\* None here, so that `x || d` and `if (x)` have something to test.
None == <<>>
Some(v) == <<v>>

\* The names the calls give their store requests: the four of getStats's
\* Promise.all, `data` of the two list queries, `insert` of createLog.
StatQueries == <<"messagesCount", "scamsCount", "activeConvCount", "intelCount">>
QueryIds == {StatQueries[k] : k \in 1..4} \cup {"data", "insert"}
NoReq == [table |-> Null]
NoResp == [none |-> TRUE]

(***************************************************************************)
(* Time.  An instant is a number of ticks since the epoch, TicksPerDay of  *)
(* them to a day.  A time zone has a base offset and at most one           *)
(* transition (daylight saving starting or ending) at instant shiftAt,     *)
(* from which on the offset is base + delta.                               *)
(***************************************************************************)
Offset(z, u) == IF z.delta # 0 /\ u >= z.shiftAt THEN z.base + z.delta ELSE z.base

\* Date.prototype.getDate and the other local getters read LocalTime(t).
LocalTime(z, u) == u + Offset(z, u)

\* ECMAScript's UTC(t): the instant of a local time.  A local time that the
\* transition skips or repeats is read with the offset before the transition.
UTC(z, tl) ==
    IF z.delta = 0 \/ tl - z.base < z.shiftAt THEN tl - z.base
    ELSE IF tl - (z.base + z.delta) >= z.shiftAt THEN tl - (z.base + z.delta)
    ELSE tl - z.base

\* d.setDate(d.getDate() - n): n days back on the local calendar, the local
\* time of day kept, the result converted back to an instant.
SetDateBack(z, u, n) == UTC(z, LocalTime(z, u) - n * TicksPerDay)

\* d.toISOString().split('T')[0]: the UTC calendar date of an instant, as
\* the number of the day.
ISODate(u) == u \div TicksPerDay

(***************************************************************************)
(* The record store.                                                       *)
(***************************************************************************)
\* The tables as the store holds them now.
Tables ==
    [messages |-> messages, conversations |-> conversations,
     intelligence |-> intelligence, system_logs |-> system_logs]

\* A request without filters; the query builders below add theirs.
Select(table, columns) ==
    [table |-> table, select |-> columns, head |-> FALSE, user_id |-> None,
     is_scam |-> None, status |-> None, scam_type_not_null |-> FALSE,
     created_at_gte |-> None]

\* .eq / .not(..., 'is', null) / .gte: does the row pass the request's filters
Matches(r, q) ==
    /\ q.user_id = None \/ r.user_id = q.user_id[1]
    /\ q.is_scam = None \/ r.is_scam = q.is_scam[1]
    /\ q.status = None \/ r.status = q.status[1]
    /\ ~q.scam_type_not_null \/ r.scam_type # Null
    /\ q.created_at_gte = None \/ r.created_at >= q.created_at_gte[1]

Project(r, columns) ==
    CASE columns = "scam_type" -> [scam_type |-> r.scam_type]
      [] columns = "created_at" -> [created_at |-> r.created_at]
      [] OTHER -> r

RECURSIVE MapProject(_, _)
MapProject(rows, columns) ==
    IF rows = <<>> THEN <<>>
    ELSE <<Project(Head(rows), columns)>> \o MapProject(Tail(rows), columns)

\* What the store answers when the request succeeds: with head, the exact
\* count and no rows; otherwise the matching rows in table order.
AnswerIn(tables, q) ==
    LET rows == SelectSeq(tables[q.table], LAMBDA r : Matches(r, q)) IN
    IF q.head
    THEN [none |-> FALSE, data |-> None, count |-> Some(Len(rows)), error |-> None]
    ELSE [none |-> FALSE, data |-> Some(MapProject(rows, q.select)), count |-> None,
          error |-> None]

Answer(q) == AnswerIn(Tables, q)

\* What the call receives when the request fails: the client resolves (it
\* does not reject) with an error and neither rows nor a count.
Failure == [none |-> FALSE, data |-> None, count |-> None, error |-> Some(StoreError)]

\* `data || []` and `count || 0`
OrEmpty(data) == IF data = None THEN <<>> ELSE data[1]
OrZero(count) == IF count = None THEN 0 ELSE IF count[1] = 0 THEN 0 ELSE count[1]

\* `if (!user)` with no test at all: the call goes on without a caller.
NoCaller_Unchecked(u) == FALSE

\* `if (!user)`: the identity provider named no caller.
NoCaller(u) == u = Null

\* `if (error) throw error` left out: the response is used as it is.
Failed_Unchecked(r) == FALSE

\* `if (error)`: the response carries an error.
Failed(r) == r.error # None

(***************************************************************************)
(* dashboardApi.getDailyDetections                                         *)
(***************************************************************************)
DailyQuery(uid, cutoff) ==
    [Select("messages", "created_at") EXCEPT
        !.user_id = Some(uid), !.is_scam = Some(TRUE), !.created_at_gte = Some(cutoff)]

\* `detectionsByDate[date] || 0`: a date that is no key of the map reads as
\* undefined.
CountOn(byDate, date) == IF date \in DOMAIN byDate THEN byDate[date] ELSE 0

\* CountItem with the count of the date set to 1 instead of incremented.
CountItem_NoAccumulate(byDate, item) ==
    LET date == ISODate(item.created_at) IN
    [d \in DOMAIN byDate \cup {date} |-> IF d = date THEN 1 ELSE byDate[d]]

\* One step of the forEach: the count of the item's UTC date goes up by one.
CountItem(byDate, item) ==
    LET date == ISODate(item.created_at) IN
    [d \in DOMAIN byDate \cup {date} |->
        IF d = date THEN CountOn(byDate, date) + 1 ELSE byDate[d]]

RECURSIVE CountByDateFrom(_, _)
CountByDateFrom(byDate, data) ==
    IF data = <<>> THEN byDate
    ELSE CountByDateFrom(CountItem(byDate, Head(data)), Tail(data))

\* The map the forEach leaves, starting from the empty object.
CountByDate(data) == CountByDateFrom([d \in {} |-> 0], data)

\* Bucket with the count read under the date of the day before.
Bucket_CountOfDayBefore(z, now, back, byDate) ==
    LET dateStr == ISODate(SetDateBack(z, now, back)) IN
    [date |-> dateStr, count |-> CountOn(byDate, dateStr - 1)]

\* The bucket one iteration of the for loop pushes, `now` being what its
\* `new Date()` read.
Bucket(z, now, back, byDate) ==
    LET dateStr == ISODate(SetDateBack(z, now, back)) IN
    [date |-> dateStr, count |-> CountOn(byDate, dateStr)]

Idle == pc = "idle" /\ op = "none"

CallGetDailyDetections ==
    /\ Idle
    /\ \E d \in 0..MaxDays : days' = d
    /\ op' = "getDailyDetections"
    /\ pc' = "getUser"
    /\ UNCHANGED <<user, messages, conversations, intelligence, system_logs, tz,
                   clock, ticks, log, inflight, resp, arrived, issued, startDate,
                   detectionsByDate, i, result, thrown, console>>

\* const { data: { user } } = await supabase.auth.getUser() has resolved:
\* no caller ends the call with [], otherwise the cutoff is computed and the
\* query sent.
DailyAfterUser ==
    /\ op = "getDailyDetections" /\ pc = "getUser"
    /\ IF NoCaller(user)
       THEN /\ result' = <<>>
            /\ pc' = "done"
            /\ UNCHANGED <<startDate, inflight, issued>>
       ELSE /\ startDate' = SetDateBack(tz, clock, days)
            /\ inflight' = [inflight EXCEPT !["data"] = DailyQuery(user, startDate')]
            /\ issued' = issued + 1
            /\ pc' = "await"
            /\ UNCHANGED result
    /\ UNCHANGED <<user, messages, conversations, intelligence, system_logs, tz,
                   clock, ticks, op, days, log, resp, arrived, detectionsByDate, i,
                   thrown, console>>

\* The query has resolved: an error is thrown; otherwise the rows are counted
\* by date and the loop is entered (with days = 0 it has no iteration and the
\* empty result is returned).
DailyAfterQuery ==
    /\ op = "getDailyDetections" /\ pc = "await"
    /\ ~resp["data"].none
    /\ IF Failed(resp["data"])
       THEN /\ thrown' = resp["data"].error[1]
            /\ pc' = "threw"
            /\ UNCHANGED <<detectionsByDate, i, result>>
       ELSE /\ detectionsByDate' = CountByDate(OrEmpty(resp["data"].data))
            /\ i' = days - 1
            /\ result' = <<>>
            /\ pc' = IF days - 1 >= 0 THEN "loop" ELSE "done"
            /\ UNCHANGED thrown
    /\ UNCHANGED <<user, messages, conversations, intelligence, system_logs, tz,
                   clock, ticks, op, days, log, inflight, resp, arrived, issued,
                   startDate, console>>

\* One iteration of the for loop, and the return once i has run below 0.
DailyLoop ==
    /\ op = "getDailyDetections" /\ pc = "loop"
    /\ i >= 0
    /\ result' = Append(result, Bucket(tz, clock, i, detectionsByDate))
    /\ i' = i - 1
    /\ pc' = IF i - 1 >= 0 THEN "loop" ELSE "done"
    /\ UNCHANGED <<user, messages, conversations, intelligence, system_logs, tz,
                   clock, ticks, op, days, log, inflight, resp, arrived, issued,
                   startDate, detectionsByDate, thrown, console>>

(***************************************************************************)
(* dashboardApi.getScamTypeDistribution                                    *)
(*                                                                         *)
(* `distribution` is a plain JavaScript object: an ordinary object whose   *)
(* prototype is Object.prototype.  It is the sequence of its own           *)
(* properties in order of creation; a value is a number or a string.       *)
(***************************************************************************)
Num(n) == [t |-> "number", n |-> n, s |-> ""]
Str(s) == [t |-> "string", n |-> 0, s |-> s]

\* The labels of the model that are array indices (canonical numeric
\* strings), with their numeric value.
ArrayIndices == ("3" :> 3) @@ ("7" :> 7)

\* The properties of Object.prototype among the labels of the model, with the
\* string `value + 1` starts with: the constructor function and, for the
\* __proto__ accessor, Object.prototype itself.
ObjectPrototype ==
    ("constructor" :> "function Object() { [native code] }")
    @@ ("__proto__" :> "[object Object]")

OwnIndex(obj, key) == {k \in 1..Len(obj) : obj[k].key = key}

\* Incremented with the current count never read: every assignment stores 1.
Incremented_FromZero(obj, key) == Num(0 + 1)

\* `distribution[key] || 0` followed by `+ 1`: an own count is incremented; a
\* missing key reads as undefined unless Object.prototype has it, and then the
\* inherited object is truthy and `+ 1` concatenates "1" to its string.
Incremented(obj, key) ==
    IF OwnIndex(obj, key) # {}
    THEN LET v == obj[CHOOSE k \in OwnIndex(obj, key) : TRUE].value IN
         IF v.t = "number" THEN Num(v.n + 1) ELSE Str(v.s \o "1")
    ELSE IF key \in DOMAIN ObjectPrototype THEN Str(ObjectPrototype[key] \o "1")
    ELSE Num(0 + 1)

\* `distribution[key] = value`: __proto__ is the accessor of Object.prototype,
\* whose setter ignores a value that is no object; any other key is updated
\* in place or created last.
Assigned(obj, key, value) ==
    IF key = "__proto__" THEN obj
    ELSE IF OwnIndex(obj, key) # {}
    THEN [k \in 1..Len(obj) |->
            IF obj[k].key = key THEN [key |-> key, value |-> value] ELSE obj[k]]
    ELSE Append(obj, [key |-> key, value |-> value])

\* One step of the forEach: a falsy label (the empty string) is passed over.
Tally(obj, item) ==
    IF item.scam_type = "" \/ item.scam_type = Null THEN obj
    ELSE Assigned(obj, item.scam_type, Incremented(obj, item.scam_type))

RECURSIVE TallyFrom(_, _)
TallyFrom(obj, data) ==
    IF data = <<>> THEN obj ELSE TallyFrom(Tally(obj, Head(data)), Tail(data))

\* The array-index keys of obj in ascending numeric order.
RECURSIVE IndexEntries(_, _)
IndexEntries(obj, above) ==
    LET idx == {k \in 1..Len(obj) :
                   obj[k].key \in DOMAIN ArrayIndices /\ ArrayIndices[obj[k].key] > above} IN
    IF idx = {} THEN <<>>
    ELSE LET m == CHOOSE k \in idx :
                     \A j \in idx : ArrayIndices[obj[k].key] <= ArrayIndices[obj[j].key] IN
         <<obj[m]>> \o IndexEntries(obj, ArrayIndices[obj[m].key])

\* Object.entries(obj): the own properties, array-index keys first in
\* ascending numeric order, then the other keys in order of creation.
Entries(obj) ==
    IndexEntries(obj, -1)
    \o SelectSeq(obj, LAMBDA e : e.key \notin DOMAIN ArrayIndices)

RECURSIVE ToPairs(_)
ToPairs(entries) ==
    IF entries = <<>> THEN <<>>
    ELSE <<[type |-> Head(entries).key, count |-> Head(entries).value]>>
         \o ToPairs(Tail(entries))

\* What the call returns for the rows retrieved.
Distribution(data) == ToPairs(Entries(TallyFrom(<<>>, data)))

DistQuery(uid) ==
    [Select("messages", "scam_type") EXCEPT
        !.user_id = Some(uid), !.is_scam = Some(TRUE), !.scam_type_not_null = TRUE]

CallGetScamTypeDistribution ==
    /\ Idle
    /\ op' = "getScamTypeDistribution"
    /\ pc' = "getUser"
    /\ UNCHANGED <<user, messages, conversations, intelligence, system_logs, tz,
                   clock, ticks, days, log, inflight, resp, arrived, issued,
                   startDate, detectionsByDate, i, result, thrown, console>>

\* getUser has resolved: no caller ends the call with [], otherwise the query
\* is sent.
DistAfterUser ==
    /\ op = "getScamTypeDistribution" /\ pc = "getUser"
    /\ IF NoCaller(user)
       THEN /\ result' = <<>>
            /\ pc' = "done"
            /\ UNCHANGED <<inflight, issued>>
       ELSE /\ inflight' = [inflight EXCEPT !["data"] = DistQuery(user)]
            /\ issued' = issued + 1
            /\ pc' = "await"
            /\ UNCHANGED result
    /\ UNCHANGED <<user, messages, conversations, intelligence, system_logs, tz,
                   clock, ticks, op, days, log, resp, arrived, startDate,
                   detectionsByDate, i, thrown, console>>

\* The query has resolved: an error is thrown, otherwise the labels are
\* tallied and the entries of the tally returned.
DistAfterQuery ==
    /\ op = "getScamTypeDistribution" /\ pc = "await"
    /\ ~resp["data"].none
    /\ IF Failed(resp["data"])
       THEN /\ thrown' = resp["data"].error[1]
            /\ pc' = "threw"
            /\ UNCHANGED result
       ELSE /\ result' = Distribution(OrEmpty(resp["data"].data))
            /\ pc' = "done"
            /\ UNCHANGED thrown
    /\ UNCHANGED <<user, messages, conversations, intelligence, system_logs, tz,
                   clock, ticks, op, days, log, inflight, resp, arrived, issued,
                   startDate, detectionsByDate, i, console>>

(***************************************************************************)
(* dashboardApi.getStats                                                   *)
(***************************************************************************)
CountQuery(table, uid) ==
    [Select(table, "*") EXCEPT !.head = TRUE, !.user_id = Some(uid)]

\* StatsQueries with the caller's filter left out of the scam count.
StatsQueries_ScamsOfEveryone(uid) ==
    [q \in {StatQueries[k] : k \in 1..4} |->
        CASE q = "messagesCount" -> CountQuery("messages", uid)
          [] q = "scamsCount" ->
                [Select("messages", "*") EXCEPT !.head = TRUE, !.is_scam = Some(TRUE)]
          [] q = "activeConvCount" ->
                [CountQuery("conversations", uid) EXCEPT !.status = Some("active")]
          [] q = "intelCount" -> CountQuery("intelligence", uid)]

\* The four requests handed to Promise.all.
StatsQueries(uid) ==
    [q \in {StatQueries[k] : k \in 1..4} |->
        CASE q = "messagesCount" -> CountQuery("messages", uid)
          [] q = "scamsCount" ->
                [CountQuery("messages", uid) EXCEPT !.is_scam = Some(TRUE)]
          [] q = "activeConvCount" ->
                [CountQuery("conversations", uid) EXCEPT !.status = Some("active")]
          [] q = "intelCount" -> CountQuery("intelligence", uid)]

ZeroStats ==
    [totalMessages |-> 0, totalScams |-> 0, activeConversations |-> 0,
     intelligenceExtracted |-> 0]

\* Stats with the counts taken in the order the responses arrived.
Stats_ByArrival(r, order) ==
    [totalMessages |-> OrZero(r[order[1]].count),
     totalScams |-> OrZero(r[order[2]].count),
     activeConversations |-> OrZero(r[order[3]].count),
     intelligenceExtracted |-> OrZero(r[order[4]].count)]

\* The record returned from the four responses; Promise.all hands them over
\* by position, whatever the order they arrived in.
Stats(r, order) ==
    [totalMessages |-> OrZero(r["messagesCount"].count),
     totalScams |-> OrZero(r["scamsCount"].count),
     activeConversations |-> OrZero(r["activeConvCount"].count),
     intelligenceExtracted |-> OrZero(r["intelCount"].count)]

CallGetStats ==
    /\ Idle
    /\ op' = "getStats"
    /\ pc' = "getUser"
    /\ UNCHANGED <<user, messages, conversations, intelligence, system_logs, tz,
                   clock, ticks, days, log, inflight, resp, arrived, issued,
                   startDate, detectionsByDate, i, result, thrown, console>>

\* getUser has resolved: no caller ends the call with the zero record,
\* otherwise the four count requests are sent, none waiting for another.
StatsAfterUser ==
    /\ op = "getStats" /\ pc = "getUser"
    /\ IF NoCaller(user)
       THEN /\ result' = ZeroStats
            /\ pc' = "done"
            /\ UNCHANGED <<inflight, issued>>
       ELSE /\ inflight' = [q \in QueryIds |->
                              IF q \in DOMAIN StatsQueries(user)
                              THEN StatsQueries(user)[q] ELSE inflight[q]]
            /\ issued' = issued + 4
            /\ pc' = "await"
            /\ UNCHANGED result
    /\ UNCHANGED <<user, messages, conversations, intelligence, system_logs, tz,
                   clock, ticks, op, days, log, resp, arrived, startDate,
                   detectionsByDate, i, thrown, console>>

\* Promise.all has resolved, which takes all four responses; none of them is
\* looked at for an error.
StatsAfterAll ==
    /\ op = "getStats" /\ pc = "await"
    /\ \A k \in 1..4 : ~resp[StatQueries[k]].none
    /\ result' = Stats(resp, arrived)
    /\ pc' = "done"
    /\ UNCHANGED <<user, messages, conversations, intelligence, system_logs, tz,
                   clock, ticks, op, days, log, inflight, resp, arrived, issued,
                   startDate, detectionsByDate, i, thrown, console>>

(***************************************************************************)
(* systemLogApi.createLog                                                  *)
(***************************************************************************)
InsertLog(entry) ==
    [Select("system_logs", "insert") EXCEPT !.head = TRUE] @@ [row |-> entry]

\* AfterInsert with the error thrown, as the other calls do.
AfterInsert_Throws(r, out) ==
    IF Failed(r)
    THEN [pc |-> "threw", thrown |-> r.error[1], console |-> out]
    ELSE [pc |-> "done", thrown |-> Null, console |-> out]

\* How createLog ends once the insert has resolved, `out` being what the
\* console was given before: an error goes to console.error and nowhere else.
AfterInsert(r, out) ==
    [pc |-> "done", thrown |-> Null,
     console |-> IF Failed(r)
                 THEN Append(out, <<"Failed to create log:", r.error[1]>>)
                 ELSE out]

LogEntries == {[level |-> l, message |-> m] : l \in {"info", "error"}, m \in {"m1", "m2"}}

\* createLog(log) sends its insert at once: it asks for no caller.
CallCreateLog ==
    /\ Idle
    /\ \E entry \in LogEntries :
        /\ log' = entry
        /\ inflight' = [inflight EXCEPT !["insert"] = InsertLog(entry)]
    /\ op' = "createLog"
    /\ issued' = issued + 1
    /\ pc' = "await"
    /\ UNCHANGED <<user, messages, conversations, intelligence, system_logs, tz,
                   clock, ticks, days, resp, arrived, startDate, detectionsByDate,
                   i, result, thrown, console>>

CreateLogAfterInsert ==
    /\ op = "createLog" /\ pc = "await"
    /\ ~resp["insert"].none
    /\ LET end == AfterInsert(resp["insert"], console) IN
        /\ pc' = end.pc
        /\ thrown' = end.thrown
        /\ console' = end.console
    /\ UNCHANGED <<user, messages, conversations, intelligence, system_logs, tz,
                   clock, ticks, op, days, log, inflight, resp, arrived, issued,
                   startDate, detectionsByDate, i, result>>

(***************************************************************************)
(* The environment: the store answers a request, time passes.              *)
(***************************************************************************)
\* The store answers request q, with its rows or count, or with an error; an
\* insert that succeeds adds its row to the table.
StoreRespond ==
    \E q \in QueryIds :
        /\ inflight[q] # NoReq
        /\ resp[q].none
        /\ \E ok \in BOOLEAN :
            /\ resp' = [resp EXCEPT ![q] = IF ok THEN Answer(inflight[q]) ELSE Failure]
            /\ system_logs' =
                 IF ok /\ inflight[q].select = "insert"
                 THEN Append(system_logs, inflight[q].row)
                 ELSE system_logs
        /\ arrived' = Append(arrived, q)
        /\ UNCHANGED <<user, messages, conversations, intelligence, tz, clock, ticks,
                       op, pc, days, log, inflight, issued, startDate,
                       detectionsByDate, i, result, thrown, console>>

\* The wall clock advances while a call that reads it is under way.
Tick ==
    /\ op = "getDailyDetections"
    /\ pc \in {"getUser", "await", "loop"}
    /\ ticks < MaxTicks
    /\ clock' = clock + 1
    /\ ticks' = ticks + 1
    /\ UNCHANGED <<user, messages, conversations, intelligence, system_logs, tz, op,
                   pc, days, log, inflight, resp, arrived, issued, startDate,
                   detectionsByDate, i, result, thrown, console>>

(***************************************************************************)
(* Initial states.                                                         *)
(***************************************************************************)
SeqsUpTo(S, n) == UNION {[1..k -> S] : k \in 0..n}

Message(uid, scam, type, at) ==
    [user_id |-> uid, is_scam |-> scam, scam_type |-> type, created_at |-> at]

\* The instants at which a call may start: any time of day Day0.
ClockStarts == {Day0 * TicksPerDay + h : h \in 0..(TicksPerDay - 1)}

\* The time zones of the host: UTC and one tick east of it, either without a
\* transition or with the offset going up or down by one tick late on the
\* day before Day0 or early on Day0.
ShiftInstants == {Day0 * TicksPerDay - 1, Day0 * TicksPerDay + 1}
TimeZones ==
    {[base |-> b, shiftAt |-> 0, delta |-> 0] : b \in {0, 1}}
    \cup {[base |-> 1, shiftAt |-> s, delta |-> d] : s \in ShiftInstants, d \in {-1, 1}}

\* The state every call starts from, the store and the host left open.
Quiet ==
    /\ ticks = 0
    /\ op = "none" /\ pc = "idle"
    /\ days = 0 /\ log = Null
    /\ inflight = [q \in QueryIds |-> NoReq]
    /\ resp = [q \in QueryIds |-> NoResp]
    /\ arrived = <<>>
    /\ issued = 0
    /\ startDate = 0
    /\ detectionsByDate = [d \in {} |-> 0]
    /\ i = 0
    /\ result = <<>>
    /\ thrown = Null
    /\ console = <<>>

\* Messages for getDailyDetections: detections of u1 early on each day from
\* MaxDays before Day0 to the day after it, one message of u1 that is no
\* scam, one detection of another user.
DailyTimes == {d * TicksPerDay + 1 : d \in (Day0 - MaxDays)..(Day0 + 1)}
DailyRows ==
    {Message("u1", TRUE, "phishing", t) : t \in DailyTimes}
    \cup {Message("u1", FALSE, Null, Day0 * TicksPerDay + 1),
          Message("u2", TRUE, "phishing", Day0 * TicksPerDay + 1)}

InitDaily ==
    /\ Quiet
    /\ user \in {Null, "u1"}
    /\ messages \in SeqsUpTo(DailyRows, MaxDailyRows)
    /\ conversations = <<>> /\ intelligence = <<>> /\ system_logs = <<>>
    /\ tz \in TimeZones
    /\ clock \in ClockStarts

NextDaily ==
    \/ CallGetDailyDetections
    \/ DailyAfterUser
    \/ DailyAfterQuery
    \/ DailyLoop
    \/ StoreRespond
    \/ Tick

SpecDaily == InitDaily /\ [][NextDaily]_vars

\* Messages for getScamTypeDistribution: a detection of u1 under every label
\* of the model, and rows the query must leave out: a detection without a
\* label, a message of u1 that is no scam, a detection of another user.
Labels == {"phishing", "lottery", "7", "3", "", "constructor", "__proto__"}
DistRows ==
    {Message("u1", TRUE, l, Day0 * TicksPerDay) : l \in Labels}
    \cup {Message("u1", TRUE, Null, Day0 * TicksPerDay),
          Message("u1", FALSE, "phishing", Day0 * TicksPerDay),
          Message("u2", TRUE, "lottery", Day0 * TicksPerDay)}

InitDist ==
    /\ Quiet
    /\ user \in {Null, "u1"}
    /\ messages \in SeqsUpTo(DistRows, MaxDistRows)
    /\ conversations = <<>> /\ intelligence = <<>> /\ system_logs = <<>>
    /\ tz = [base |-> 0, shiftAt |-> 0, delta |-> 0]
    /\ clock = Day0 * TicksPerDay

NextDist ==
    \/ CallGetScamTypeDistribution
    \/ DistAfterUser
    \/ DistAfterQuery
    \/ StoreRespond

SpecDist == InitDist /\ [][NextDist]_vars

\* Tables for getStats: messages, conversations and intelligence records of
\* two users.
StatMessages == {Message(u, scam, Null, Day0 * TicksPerDay) : u \in Users, scam \in BOOLEAN}
Conversations == {[user_id |-> u, status |-> st] : u \in Users, st \in {"active", "completed"}}
Intelligence == {[user_id |-> u] : u \in Users}

InitStats ==
    /\ Quiet
    /\ user \in {Null, "u1"}
    /\ messages \in SeqsUpTo(StatMessages, MaxStatRows)
    /\ conversations \in SeqsUpTo(Conversations, MaxStatRows)
    /\ intelligence \in SeqsUpTo(Intelligence, MaxStatRows)
    /\ system_logs = <<>>
    /\ tz = [base |-> 0, shiftAt |-> 0, delta |-> 0]
    /\ clock = Day0 * TicksPerDay

NextStats ==
    \/ CallGetStats
    \/ StatsAfterUser
    \/ StatsAfterAll
    \/ StoreRespond

SpecStats == InitStats /\ [][NextStats]_vars

InitLog ==
    /\ Quiet
    /\ user \in {Null, "u1"}
    /\ messages = <<>> /\ conversations = <<>> /\ intelligence = <<>>
    /\ system_logs \in SeqsUpTo(LogEntries, MaxLogRows)
    /\ tz = [base |-> 0, shiftAt |-> 0, delta |-> 0]
    /\ clock = Day0 * TicksPerDay

NextLog ==
    \/ CallCreateLog
    \/ CreateLogAfterInsert
    \/ StoreRespond

SpecLog == InitLog /\ [][NextLog]_vars

\* Tables for the calls together: of either user, a detection of today and a
\* message of the day before that is no scam; at most one active
\* conversation and one intelligence record, of either user.
AllMessages ==
    {Message(u, TRUE, "phishing", Day0 * TicksPerDay) : u \in Users}
    \cup {Message(u, FALSE, "lottery", (Day0 - 1) * TicksPerDay) : u \in Users}

Init ==
    /\ Quiet
    /\ user \in {Null, "u1"}
    /\ messages \in SeqsUpTo(AllMessages, MaxAllRows)
    /\ conversations \in SeqsUpTo({[user_id |-> u, status |-> "active"] : u \in Users}, 1)
    /\ intelligence \in SeqsUpTo(Intelligence, 1)
    /\ system_logs = <<>>
    /\ tz = [base |-> 0, shiftAt |-> 0, delta |-> 0]
    /\ clock = Day0 * TicksPerDay + 1

Next ==
    \/ CallGetStats
    \/ StatsAfterUser
    \/ StatsAfterAll
    \/ CallGetScamTypeDistribution
    \/ DistAfterUser
    \/ DistAfterQuery
    \/ CallGetDailyDetections
    \/ DailyAfterUser
    \/ DailyAfterQuery
    \/ DailyLoop
    \/ CallCreateLog
    \/ CreateLogAfterInsert
    \/ StoreRespond
    \/ Tick

Spec == Init /\ [][Next]_vars

(***************************************************************************)
(* Properties of getDailyDetections.                                       *)
(***************************************************************************)
\* The rows the query of the list calls retrieved.
Retrieved == OrEmpty(resp["data"].data)

DailyReturned == op = "getDailyDetections" /\ pc = "done" /\ user # Null

RECURSIVE SumCounts(_)
SumCounts(buckets) ==
    IF buckets = <<>> THEN 0 ELSE Head(buckets).count + SumCounts(Tail(buckets))

\* The retrieved events whose UTC calendar date is `date`, by position.
EventsOn(date) == {j \in 1..Len(Retrieved) : ISODate(Retrieved[j].created_at) = date}

\* C1: for an identified caller whose query succeeded, getDailyDetections(days)
\* returns exactly `days` buckets whose dates are the consecutive calendar
\* dates today-(days-1) .. today in ascending order, today being the UTC date
\* at the return.
C1_ConsecutiveDatesEndingToday ==
    DailyReturned =>
        /\ Len(result) = days
        /\ \A k \in 1..Len(result) : result[k].date = ISODate(clock) - (days - k)

\* C3 as stated: the counts of the returned buckets add up to the number of
\* events the query retrieved.  It is stated for a window of at least one day
\* and retrieved events none of which is dated after the call began.
C3_SumEqualsRetrievedPastEvents ==
    (/\ DailyReturned /\ days >= 1
     /\ \A j \in 1..Len(Retrieved) : Retrieved[j].created_at <= clock - ticks)
        => SumCounts(result) = Len(Retrieved)

\* C3 as amended: the counts of the returned buckets add up to the number of
\* pairs of a bucket and a retrieved event whose UTC date is the bucket's
\* date; a retrieved event whose date no bucket carries is counted nowhere.
C3_SumEqualsRetrievedOnBucketDates ==
    DailyReturned =>
        SumCounts(result) =
            Cardinality({<<k, j>> \in (1..Len(result)) \X (1..Len(Retrieved)) :
                            ISODate(Retrieved[j].created_at) = result[k].date})

\* C3's case: a call that returned with a retrieved event on a bucket's date
\* and another retrieved event that lies on no bucket's date.
C3_Witness ==
    /\ DailyReturned
    /\ \E j \in 1..Len(Retrieved) : \E k \in 1..Len(result) :
            ISODate(Retrieved[j].created_at) = result[k].date
    /\ \E j \in 1..Len(Retrieved) : \A k \in 1..Len(result) :
            ISODate(Retrieved[j].created_at) # result[k].date

\* C8: the count of every bucket getDailyDetections has pushed is the number
\* of retrieved events whose timestamp, truncated to its UTC date, is the
\* bucket's date (0 when there is none).
C8_BucketCountsEventsOfItsDate ==
    (op = "getDailyDetections" /\ pc \in {"loop", "done"}) =>
        \A k \in 1..Len(result) :
            result[k].count = Cardinality(EventsOn(result[k].date))

\* C8's example: days = 3, one retrieved event today and one on today-2, and
\* the counts returned are 1, 0, 1 for today-2, today-1, today.
C8_Witness ==
    /\ DailyReturned /\ days = 3
    /\ Len(Retrieved) = 2
    /\ {ISODate(Retrieved[j].created_at) : j \in 1..2}
          = {ISODate(clock), ISODate(clock) - 2}
    /\ result = <<[date |-> ISODate(clock) - 2, count |-> 1],
                  [date |-> ISODate(clock) - 1, count |-> 0],
                  [date |-> ISODate(clock), count |-> 1]>>

(***************************************************************************)
(* Properties of getScamTypeDistribution.                                  *)
(***************************************************************************)
DistReturned == op = "getScamTypeDistribution" /\ pc = "done" /\ user # Null

RECURSIVE LabelsOf(_)
LabelsOf(data) ==
    IF data = <<>> THEN <<>> ELSE <<Head(data).scam_type>> \o LabelsOf(Tail(data))

\* The pairs of a sequence of labels as the specification describes them: one
\* per distinct label, in the order of the labels' first occurrences, with
\* the number of occurrences.
ByFirstOccurrence(labels) ==
    LET firsts == SelectSeq([k \in 1..Len(labels) |-> k],
                            LAMBDA k : \A j \in 1..(k - 1) : labels[j] # labels[k]) IN
    [n \in 1..Len(firsts) |->
        [type |-> labels[firsts[n]],
         count |-> Num(Cardinality({j \in 1..Len(labels) : labels[j] = labels[firsts[n]]}))]]

\* A label that is not empty, no array index and no property of
\* Object.prototype.
Plain(label) ==
    label # "" /\ label \notin DOMAIN ArrayIndices /\ label \notin DOMAIN ObjectPrototype

\* C5 as stated: whatever the labels, the call returns one pair per distinct
\* label of the retrieved events, with the number of events carrying it, in
\* the order of first occurrence.
C5_FirstOccurrenceOrderAnyLabel ==
    DistReturned => result = ByFirstOccurrence(LabelsOf(Retrieved))

\* C5 as amended: the pairs returned for plain labels are one per distinct
\* plain label of the retrieved events, with the number of events carrying
\* it, in the order of first occurrence; no retrieved event gives [].
C5_FirstOccurrenceOrderPlainLabels ==
    DistReturned =>
        /\ SelectSeq(result, LAMBDA p : Plain(p.type))
              = ByFirstOccurrence(SelectSeq(LabelsOf(Retrieved), Plain))
        /\ Retrieved = <<>> => result = <<>>

\* C5's example: the labels retrieved are A, A, B and the pairs returned are
\* (A, 2), (B, 1).
C5_Witness ==
    /\ DistReturned
    /\ LabelsOf(Retrieved) = <<"phishing", "phishing", "lottery">>
    /\ result = <<[type |-> "phishing", count |-> Num(2)],
                  [type |-> "lottery", count |-> Num(1)]>>

(***************************************************************************)
(* Properties of getStats.                                                 *)
(***************************************************************************)
StatsReturned == op = "getStats" /\ pc = "done" /\ user # Null

\* The rows of a table that pass the filters the specification gives a count.
Counted(table, test(_)) == Cardinality({k \in 1..Len(table) : test(table[k])})

\* C2: when one of the four count responses of getStats is a failure (the
\* other three being counts), the call does not return a stats record.
C2_NoStatsAfterFailedCount ==
    (/\ op = "getStats"
     /\ \A k \in 1..4 : ~resp[StatQueries[k]].none
     /\ Cardinality({k \in 1..4 : resp[StatQueries[k]].error # None}) = 1)
        => pc # "done"

\* C9: getStats sends its four count requests together, returns only when
\* all four have been answered, and every field of the record returned is
\* the count of its own request (0 for an absent count), which for a request
\* that succeeded is the number of the caller's messages, of the caller's
\* scam-flagged messages, of the caller's active conversations and of the
\* caller's intelligence records, in whatever order the answers arrived.
C9_EachFieldItsOwnCount ==
    (op = "getStats" /\ user # Null /\ pc \in {"await", "done"}) =>
        /\ \A k \in 1..4 : inflight[StatQueries[k]] # NoReq
        /\ issued = 4
        /\ pc = "done" =>
            /\ \A k \in 1..4 : ~resp[StatQueries[k]].none
            /\ result.totalMessages = OrZero(resp["messagesCount"].count)
            /\ result.totalScams = OrZero(resp["scamsCount"].count)
            /\ result.activeConversations = OrZero(resp["activeConvCount"].count)
            /\ result.intelligenceExtracted = OrZero(resp["intelCount"].count)
            /\ resp["messagesCount"].error = None =>
                 result.totalMessages = Counted(messages, LAMBDA r : r.user_id = user)
            /\ resp["scamsCount"].error = None =>
                 result.totalScams =
                     Counted(messages, LAMBDA r : r.user_id = user /\ r.is_scam)
            /\ resp["activeConvCount"].error = None =>
                 result.activeConversations =
                     Counted(conversations,
                             LAMBDA r : r.user_id = user /\ r.status = "active")
            /\ resp["intelCount"].error = None =>
                 result.intelligenceExtracted =
                     Counted(intelligence, LAMBDA r : r.user_id = user)

\* C9's case: the four answers arrived in the reverse of the order the
\* requests were sent in, all succeeded, and the record returned holds two
\* different counts.
C9_Witness ==
    /\ StatsReturned
    /\ arrived = <<"intelCount", "activeConvCount", "scamsCount", "messagesCount">>
    /\ \A k \in 1..4 : resp[StatQueries[k]].error = None
    /\ result.totalMessages = 1 /\ result.intelligenceExtracted = 0

(***************************************************************************)
(* Properties of createLog.                                                *)
(***************************************************************************)
\* C7: createLog never ends in an error: it sends one insert and, once the
\* insert is answered, completes normally; a failed insert has then been
\* reported once to the console, and nothing is reported otherwise.
C7_LogFailureSwallowed ==
    op = "createLog" =>
        /\ pc \in {"await", "done"}
        /\ thrown = Null
        /\ issued = 1
        /\ console = IF pc = "done" /\ resp["insert"].error # None
                     THEN <<<<"Failed to create log:", StoreError>>>>
                     ELSE <<>>
        /\ pc = "done" => ~resp["insert"].none

\* C7's case: the insert failed and createLog has completed.
C7_Witness ==
    /\ op = "createLog" /\ pc = "done"
    /\ resp["insert"].error # None
    /\ Len(console) = 1

(***************************************************************************)
(* Properties of the three dashboard calls together.                       *)
(***************************************************************************)
Dashboard == {"getStats", "getScamTypeDistribution", "getDailyDetections"}
Lists == {"getScamTypeDistribution", "getDailyDetections"}

\* C4: without a caller, a dashboard call sends nothing to the store and
\* ends normally, getStats with the zero record and the two list calls with
\* the empty sequence.
C4_NoCallerNoQuery ==
    (op \in Dashboard /\ user = Null) =>
        /\ pc \in {"getUser", "done"}
        /\ issued = 0
        /\ \A q \in QueryIds : inflight[q] = NoReq
        /\ thrown = Null
        /\ pc = "done" =>
             IF op = "getStats" THEN result = ZeroStats ELSE result = <<>>

\* C4's case: getStats has returned the zero record without a caller, the
\* store holding a message.
C4_Witness ==
    /\ op = "getStats" /\ user = Null /\ pc = "done"
    /\ result = ZeroStats /\ issued = 0
    /\ messages # <<>>

\* C6: for an identified caller, a list call whose query failed ends in the
\* store's error: it returns nothing, and it has sent the one request only.
C6_ListQueryFailurePropagates ==
    (op \in Lists /\ user # Null /\ ~resp["data"].none /\ resp["data"].error # None) =>
        /\ pc \in {"await", "threw"}
        /\ pc = "threw" => thrown = resp["data"].error[1]
        /\ result = <<>>
        /\ issued = 1

\* C6's case: the query of a list call failed and the call has ended in the
\* store's error.
C6_Witness ==
    /\ op \in Lists /\ pc = "threw" /\ thrown = StoreError
    /\ resp["data"].error = Some(StoreError)

\* The tables with the rows of every user but uid taken out.
OwnedBy(uid) ==
    [t \in DOMAIN Tables |->
        IF t = "system_logs" THEN Tables[t]
        ELSE SelectSeq(Tables[t], LAMBDA r : r.user_id = uid)]

\* The response request q would have had from the tables T: the failure it
\* had, or the answer T gives.
ResponseFrom(T, q) == IF resp[q].error # None THEN Failure ELSE AnswerIn(T, inflight[q])

\* C10: what a dashboard call returns is what it would have returned from a
\* store holding the caller's records only, the same requests failing: so two
\* stores that agree on the caller's records give the same result.
C10_OnlyCallersRecords ==
    (op \in Dashboard /\ user # Null /\ pc = "done") =>
        LET T == OwnedBy(user) IN
        CASE op = "getStats" ->
                result = Stats([q \in QueryIds |->
                                  IF inflight[q] = NoReq THEN NoResp
                                  ELSE ResponseFrom(T, q)], arrived)
          [] op = "getScamTypeDistribution" ->
                result = Distribution(OrEmpty(ResponseFrom(T, "data").data))
          [] op = "getDailyDetections" ->
                \A k \in 1..Len(result) :
                    result[k].count =
                        CountOn(CountByDate(OrEmpty(ResponseFrom(T, "data").data)),
                                result[k].date)

\* C10's case: getDailyDetections has returned one detection for today, the
\* store holding a detection of the caller and one of another user, both of
\* today.
C10_Witness ==
    /\ op = "getDailyDetections" /\ user # Null /\ pc = "done"
    /\ \E k \in 1..Len(messages) : messages[k].user_id # user /\ messages[k].is_scam
    /\ \E k \in 1..Len(messages) : messages[k].user_id = user /\ messages[k].is_scam
    /\ Len(result) > 0 /\ result[Len(result)].count = 1

====
